---- MODULE Spec2Model ----
(***************************************************************************)
(* A model of the GPU kangaroo worker of RCKangaroo (GpuKang.cpp,          *)
(* GpuKang.h, defs.h): the launch-geometry planner, the buffer life cycle  *)
(* of Prepare / Start / Release, the two-queue iteration of Execute, the   *)
(* shared error counter and the herd partition.                            *)
(***************************************************************************)
EXTENDS Integers, Sequences, FiniteSets, TLC

(***************************************************************************)
(* Program constants (host build: __CUDA_ARCH__ is not defined).           *)
(***************************************************************************)
MAX_DP_CNT == 1048576
GPU_DP_SIZE == 48
STEP_CNT == 1500
MD_LEN == 16
JMP_CNT == 1024
STATS_WND_SIZE == 16
\* the hard ceiling of Prepare and the one of CalcKangCnt
MAX_SAFE_KANG_CNT == 800000
MAX_SAFE_KANG_CNT_Calc == 1000000

(***************************************************************************)
(* Bounds of the model.                                                    *)
(***************************************************************************)
\* multiprocessor counts 0..MaxMpCnt are planned (the products stay below
\* 2^31, so the u32 / int conversions of the source preserve the value)
MaxMpCnt == 200
\* compute-capability majors 7..MaxMajor
MaxMajor == 10

\* worker objects 1..NumWorkers
NumWorkers == 2
\* batches one worker may start
MaxIter == 2
\* batches one worker may start when several workers run
MultiIter == 1
\* batches the worker of StatsSpec may start
MaxStatIter == 18
\* samples of the window that may come from a batch of zero ticks
MaxOddTicks == 2
\* herds of 0..MaxHerd lanes are generated lane by lane
MaxHerd == 12
\* bit ranges 4..MaxRange of the unknown scalar (Range - 4 is a bit count)
MaxRange == 6
\* herds of 0..MaxDistLanes lanes draw their distances from every random value
MaxDistLanes == 3

WorkerIds == 1..NumWorkers
Majors == 7..MaxMajor
MpCnts == 0..MaxMpCnt

VARIABLES
    mpCnt,        \* RCGpuKang::mpCnt
    IsOldGpu,     \* RCGpuKang::IsOldGpu
    devMajor,     \* cudaDeviceProp::major of the worker's device
    Kparams,      \* the geometry fields of RCGpuKang::Kparams
    KangCnt,      \* RCGpuKang::KangCnt
    calcRet,      \* the value CalcKangCnt returned last
    StopFlag,     \* RCGpuKang::StopFlag
    Failed,       \* RCGpuKang::Failed
    prepRet,      \* what Prepare returned to its caller: "none" before the call
    handle,       \* the buffer pointers: Kparams.*, DPs_out, RndPnts
    hostTmp,      \* the temporary host buffers of Prepare still allocated
    allocLog,     \* the buffers acquired, in order
    freeLog,      \* the frees issued, in order, each with the state of the pointer freed
    relCalls,     \* how often Release has run
    computeStream,\* ::computeStream
    memoryStream, \* ::memoryStream
    streamState,  \* the command queues of the device runtime
    queue,        \* the commands issued on each queue and not yet completed
    devCnt,       \* the hit count in the first word of Kparams.DPs_out, on the device
    cnt,          \* the local cnt of Execute
    warned,       \* overflow warnings printed in the current batch
    copied,       \* DP records copied to the host in the current batch
    forwarded,    \* DP records handed to AddPointsToList in the current batch
    evlog,        \* the device calls of the current batch, in order
    iter,         \* batches started
    samples,      \* speed samples recorded
    sampleLog,    \* the values of cur_speed recorded, oldest first
    SpeedStats,   \* RCGpuKang::SpeedStats
    cur_stats_ind,\* RCGpuKang::cur_stats_ind
    gTotalErrors, \* ::gTotalErrors
    errTmp,       \* the value of gTotalErrors a worker has loaded to increment
    errRet,       \* what follows the increment: "return" or "break"
    reported,     \* gTotalErrors++ statements executed
    devFails,     \* fatal device-API failures that have happened
    laneDist,     \* RndPnts[i].priv for the lanes GenerateRndDistances has written
    lanePnt,      \* RndPnts[i].x for the lanes the loop of Start has written
    lanePriv,     \* the three words GenerateRndDistances copied to RndPnts[i].priv
    Range,        \* RCGpuKang::Range
    hitWord,      \* the 32 bits of the hit counter on the device, as two 16-bit halves
    copySize,     \* the size argument of the copy of the DP records, as the int computed
    pc            \* where each worker object is in its life

planVars == <<mpCnt, IsOldGpu, devMajor, Kparams, KangCnt, calcRet>>
flagVars == <<StopFlag, Failed, prepRet>>
memVars == <<handle, hostTmp, allocLog, freeLog, relCalls>>
streamVars == <<computeStream, memoryStream, streamState>>
batchVars == <<devCnt, cnt, warned, copied, forwarded, evlog, iter>>
statVars == <<samples, sampleLog, SpeedStats, cur_stats_ind>>
errVars == <<gTotalErrors, errTmp, errRet, reported, devFails>>
herdVars == <<laneDist, lanePnt, lanePriv, Range, hitWord, copySize>>

vars == <<herdVars, planVars, flagVars, memVars, streamVars, queue, batchVars, statVars, errVars, pc>>

NoParams == [BlockCnt |-> 0, BlockSize |-> 0, GroupCnt |-> 0, KangCnt |-> 0]

(***************************************************************************)
(* The planner of Prepare (GpuKang.cpp 156-203).                           *)
(***************************************************************************)
PrepareGeometry(mp, old, major) ==
    IF major >= 9
    THEN [BlockCnt |-> IF mp > 100 THEN 60 ELSE mp, BlockSize |-> 256, GroupCnt |-> 12]
    ELSE [BlockCnt |-> mp,
          BlockSize |-> IF old THEN 512 ELSE 256,
          GroupCnt |-> IF old THEN 64 ELSE 32]

PrepareClamp(g) ==
    LET k0 == g.BlockSize * g.GroupCnt * g.BlockCnt
    IN  IF k0 > MAX_SAFE_KANG_CNT
        THEN LET k1  == MAX_SAFE_KANG_CNT
                 gc1 == k1 \div (g.BlockSize * g.BlockCnt)
             IN  IF gc1 < 8
                 THEN [BlockCnt |-> k1 \div (g.BlockSize * 8),
                       BlockSize |-> g.BlockSize, GroupCnt |-> 8, KangCnt |-> k1]
                 ELSE [BlockCnt |-> g.BlockCnt,
                       BlockSize |-> g.BlockSize, GroupCnt |-> gc1, KangCnt |-> k1]
        ELSE [BlockCnt |-> g.BlockCnt, BlockSize |-> g.BlockSize,
              GroupCnt |-> g.GroupCnt, KangCnt |-> k0]

PreparePlan(mp, old, major) == PrepareClamp(PrepareGeometry(mp, old, major))

(***************************************************************************)
(* CalcKangCnt (GpuKang.cpp 52-102): the geometry it leaves in Kparams and *)
(* the count it returns.  Kparams.KangCnt is not written.                  *)
(***************************************************************************)
CalcGeometry(mp, old, major) ==
    IF old
    THEN [BlockCnt |-> mp, BlockSize |-> 512, GroupCnt |-> 64]
    ELSE IF major >= 9
         THEN [BlockCnt |-> IF mp > 80 THEN 80 ELSE mp, BlockSize |-> 256, GroupCnt |-> 16]
         ELSE [BlockCnt |-> mp, BlockSize |-> 256, GroupCnt |-> 32]

CalcClamp(g) ==
    LET total == g.BlockSize * g.GroupCnt * g.BlockCnt
    IN  IF total > MAX_SAFE_KANG_CNT_Calc
        THEN [g EXCEPT !.BlockCnt = MAX_SAFE_KANG_CNT_Calc \div (g.BlockSize * g.GroupCnt)]
        ELSE g

CalcPlan(mp, old, major) == CalcClamp(CalcGeometry(mp, old, major))

CalcReturn(g) == g.BlockSize * g.GroupCnt * g.BlockCnt

(***************************************************************************)
(* Buffers and command queues.                                             *)
(***************************************************************************)
\* the device buffers in the order Prepare acquires them (216-356)
DeviceBufs(old) ==
    (IF old THEN <<>> ELSE <<"Kparams.L2">>) \o
    <<"Kparams.DPs_out", "Kparams.Kangs", "Kparams.Jumps1", "Kparams.Jumps2",
      "Kparams.Jumps3", "Kparams.JumpsList", "Kparams.DPTable", "Kparams.L1S2",
      "Kparams.LastPnts", "Kparams.LoopTable", "Kparams.dbg_buf", "Kparams.LoopedKangs">>

SeqRange(s) == {s[i] : i \in 1..Len(s)}

KparamsBufs == SeqRange(DeviceBufs(FALSE))
HostBufs == {"DPs_out", "RndPnts"}
Buffers == KparamsBufs \cup HostBufs
TmpBufs == {"buf.jmp1", "buf.jmp2", "jmp2_table", "buf.jmp3"}

\* RCGpuKang() sets DPs_out and RndPnts to NULL and nothing else: the pointers
\* of Kparams are indeterminate, here NULL or garbage
NewHandles(kp) == [b \in Buffers |-> IF b \in HostBufs THEN "null" ELSE kp]

NullStream == [w |-> 0, k |-> "null"]
Sid(w, k) == [w |-> w, k |-> k]
Streams == {Sid(w, k) : w \in WorkerIds, k \in {"compute", "memory", "prio"}}
           \cup {NullStream}

Live(w) == {b \in Buffers : handle[w][b] = "live"}

(***************************************************************************)
(* Prepare (105-450).  The statements that can fail, in order; "priority"  *)
(* (139-154) and "plan" (156-212) cannot make Prepare return false.        *)
(***************************************************************************)
PrepareSteps(old) ==
    <<"cudaSetDevice", "cudaStreamCreate.compute", "cudaStreamCreate.memory",
      "priority", "plan">> \o
    DeviceBufs(old) \o
    <<"DPs_out", "buf.jmp1", "cudaMemcpy.Jumps1", "buf.jmp2", "jmp2_table",
      "cudaMemcpy.Jumps2", "cuSetGpuParams", "buf.jmp3", "cudaMemcpy.Jumps3">>

\* the statements whose failure is the failure of a device-API call
IsDeviceCall(step) == step \notin ({"DPs_out"} \cup TmpBufs)

FailPoints(old) ==
    {0} \cup {i \in 1..Len(PrepareSteps(old)) :
                 PrepareSteps(old)[i] \notin {"priority", "plan"}}

PrioOutcomes == {"norange", "nocreate", "ok"}

\* one statement of Prepare succeeding
PrepareOk(st, step, w) ==
    CASE step = "cudaStreamCreate.compute" ->
            [st EXCEPT !.cs = Sid(w, "compute"), !.ss[Sid(w, "compute")] = "alive"]
      [] step = "cudaStreamCreate.memory" ->
            [st EXCEPT !.ms = Sid(w, "memory"), !.ss[Sid(w, "memory")] = "alive"]
      [] step = "priority" ->
            IF st.prio = "ok"
            THEN [st EXCEPT !.ss = [@ EXCEPT ![Sid(w, "prio")] = "alive",
                                             ![st.cs] = "destroyed"],
                            !.cs = Sid(w, "prio")]
            ELSE st
      [] step = "plan" ->
            [st EXCEPT !.plan = PreparePlan(mpCnt[w], IsOldGpu[w], devMajor[w]),
                       !.planned = TRUE]
      [] step \in Buffers ->
            [st EXCEPT !.handle[step] = "live", !.allocLog = Append(@, step)]
      [] step \in {"buf.jmp1", "buf.jmp2", "jmp2_table", "buf.jmp3"} ->
            [st EXCEPT !.tmp = @ \cup {step}]
      [] step = "cudaMemcpy.Jumps1" -> [st EXCEPT !.tmp = @ \ {"buf.jmp1"}]
      [] step = "cudaMemcpy.Jumps2" -> [st EXCEPT !.tmp = @ \ {"buf.jmp2"}]
      [] step = "cuSetGpuParams" -> [st EXCEPT !.tmp = @ \ {"jmp2_table"}]
      [] step = "cudaMemcpy.Jumps3" -> [st EXCEPT !.tmp = @ \ {"buf.jmp3"}]
      [] OTHER -> st

\* what Prepare does before `return false` when one statement fails
PrepareFail(st, step) ==
    CASE step = "cudaStreamCreate.memory" -> [st EXCEPT !.ss[st.cs] = "destroyed"]
      [] step = "cudaMemcpy.Jumps1" -> [st EXCEPT !.tmp = @ \ {"buf.jmp1"}]
      [] step = "jmp2_table" -> [st EXCEPT !.tmp = @ \ {"buf.jmp2"}]
      [] step = "cudaMemcpy.Jumps2" -> [st EXCEPT !.tmp = @ \ {"buf.jmp2", "jmp2_table"}]
      [] step = "cuSetGpuParams" -> [st EXCEPT !.tmp = @ \ {"jmp2_table"}]
      [] step = "cudaMemcpy.Jumps3" -> [st EXCEPT !.tmp = @ \ {"buf.jmp3"}]
      [] OTHER -> st

RECURSIVE RunPrepare(_, _, _, _, _)
RunPrepare(steps, i, failAt, st, w) ==
    IF i > Len(steps) THEN st
    ELSE IF i = failAt THEN PrepareFail(st, steps[i])
    ELSE RunPrepare(steps, i + 1, failAt, PrepareOk(st, steps[i], w), w)

Prepare(w, failAt, prio) ==
    /\ pc[w] = "idle"
    /\ failAt \in FailPoints(IsOldGpu[w])
    /\ LET steps == PrepareSteps(IsOldGpu[w])
           st0 == [handle |-> handle[w], allocLog |-> <<>>, tmp |-> {},
                   cs |-> computeStream, ms |-> memoryStream, ss |-> streamState,
                   prio |-> prio, plan |-> Kparams[w], planned |-> FALSE]
           st == RunPrepare(steps, 1, failAt, st0, w)
       IN  /\ StopFlag' = [StopFlag EXCEPT ![w] = FALSE]
           /\ Failed' = [Failed EXCEPT ![w] = FALSE]
           /\ prepRet' = [prepRet EXCEPT ![w] = IF failAt = 0 THEN "true" ELSE "false"]
           /\ SpeedStats' = [SpeedStats EXCEPT ![w] = [i \in 0..(STATS_WND_SIZE - 1) |-> 0]]
           /\ cur_stats_ind' = [cur_stats_ind EXCEPT ![w] = 0]
           /\ computeStream' = st.cs
           /\ memoryStream' = st.ms
           /\ streamState' = st.ss
           /\ Kparams' = [Kparams EXCEPT ![w] = st.plan]
           /\ KangCnt' = [KangCnt EXCEPT ![w] = IF st.planned THEN st.plan.KangCnt ELSE @]
           /\ handle' = [handle EXCEPT ![w] = st.handle]
           /\ allocLog' = [allocLog EXCEPT ![w] = st.allocLog]
           /\ hostTmp' = [hostTmp EXCEPT ![w] = st.tmp]
           /\ devFails' = [devFails EXCEPT ![w] =
                             IF failAt # 0 /\ IsDeviceCall(steps[failAt]) THEN @ + 1 ELSE @]
           /\ pc' = [pc EXCEPT ![w] = IF failAt = 0 THEN "ready" ELSE "prepfailed"]
    /\ UNCHANGED <<herdVars, mpCnt, IsOldGpu, devMajor, calcRet, freeLog, relCalls, queue,
                   batchVars, samples, sampleLog, gTotalErrors, errTmp, errRet, reported>>

(***************************************************************************)
(* Release (452-474).                                                      *)
(***************************************************************************)
ReleaseOrderAsAcquired(old) == DeviceBufs(old) \o <<"DPs_out", "RndPnts">>

ReleaseOrder(old) ==
    <<"RndPnts", "DPs_out", "Kparams.LoopedKangs", "Kparams.dbg_buf",
      "Kparams.LoopTable", "Kparams.LastPnts", "Kparams.L1S2", "Kparams.DPTable",
      "Kparams.JumpsList", "Kparams.Jumps3", "Kparams.Jumps2", "Kparams.Jumps1",
      "Kparams.Kangs", "Kparams.DPs_out">> \o
    (IF old THEN <<>> ELSE <<"Kparams.L2">>)

\* free / cudaFree of a pointer: a live buffer is freed, the pointer keeps its value
FreeOne(h, b) == IF h[b] = "live" THEN [h EXCEPT ![b] = "freed"] ELSE h

\* the frees of Release, one after the other over distinct pointers
FreeAll(h, order) ==
    [b \in DOMAIN h |-> IF b \in SeqRange(order) THEN FreeOne(h, b)[b] ELSE h[b]]

FreeRecords(h, order) == [i \in 1..Len(order) |-> <<order[i], h[order[i]]>>]

\* cudaStreamDestroy(s): a live queue is destroyed; a second destroy of the
\* same handle is recorded as such
DestroyStream(ss, s) ==
    IF s \in DOMAIN ss /\ ss[s] = "alive" THEN [ss EXCEPT ![s] = "destroyed"]
    ELSE IF s \in DOMAIN ss /\ ss[s] = "destroyed" THEN [ss EXCEPT ![s] = "destroyed.again"]
    ELSE ss

ReleaseBody(w) ==
    LET order == ReleaseOrder(IsOldGpu[w])
    IN  /\ freeLog' = [freeLog EXCEPT ![w] = @ \o FreeRecords(handle[w], order)]
        /\ handle' = [handle EXCEPT ![w] = FreeAll(handle[w], order)]
        /\ streamState' = DestroyStream(DestroyStream(streamState, computeStream), memoryStream)
        /\ relCalls' = [relCalls EXCEPT ![w] = @ + 1]

\* the caller releases a worker whose Prepare returned false
ReleaseCall(w) ==
    /\ pc[w] = "prepfailed"
    /\ ReleaseBody(w)
    /\ pc' = [pc EXCEPT ![w] = "released"]
    /\ UNCHANGED <<herdVars, planVars, flagVars, hostTmp, allocLog, computeStream, memoryStream,
                   queue, batchVars, statVars, errVars>>

(***************************************************************************)
(* Start (497-584), run as one step of the worker's thread.                *)
(***************************************************************************)
StartSteps ==
    <<"Failed", "cudaSetDevice", "RndPnts", "cudaMemcpy.Kangs", "CallGpuKernelGen",
      "cudaStreamSynchronize.compute", "cudaMemset.L1S2", "cudaMemset.dbg_buf",
      "cudaMemset.LoopTable">>

\* the statement of Start that returns false (0: none): the test of Failed is
\* decided by the flag, the others by the device or the allocator
StartFailPoints(failed) == IF failed THEN {1} ELSE {0} \cup (2..Len(StartSteps))

StartAcquires(failAt) == failAt = 0 \/ failAt > 3

\* Prepare, 317-334: the loop-history length of the allocations, and the bytes
\* of Kparams.LoopTable (sizeof(u64) is 8)
EffectiveMdLen(old, major) == IF ~old /\ major >= 9 THEN 8 ELSE MD_LEN

LoopTableAllocated(kangs, old, major) == kangs * EffectiveMdLen(old, major) * 8

\* Start, 577: the bytes of Kparams.LoopTable set to zero
LoopTableCleared(kangs) == kangs * MD_LEN * 8

\* the device buffer a statement of Start writes
StartWrites(step) ==
    CASE step \in {"cudaMemcpy.Kangs", "CallGpuKernelGen"} -> {"Kparams.Kangs"}
      [] step = "cudaMemset.L1S2" -> {"Kparams.L1S2"}
      [] step = "cudaMemset.dbg_buf" -> {"Kparams.dbg_buf"}
      [] step = "cudaMemset.LoopTable" -> {"Kparams.LoopTable"}
      [] OTHER -> {}

\* a copy or memset to a null pointer fails; to any other pointer that is not
\* a live allocation it may do either
StartCanPass(h, failAt) ==
    \A i \in 1..Len(StartSteps) :
        (failAt = 0 \/ i < failAt) => \A b \in StartWrites(StartSteps[i]) : h[b] # "null"

Goto(w, l) == pc' = [pc EXCEPT ![w] = l]

\* a fatal failure in Execute: gTotalErrors++ follows, then `return` or `break`
Fatal(w, ret, device) ==
    /\ pc' = [pc EXCEPT ![w] = "gTotalErrors.load"]
    /\ errRet' = [errRet EXCEPT ![w] = ret]
    /\ devFails' = [devFails EXCEPT ![w] = IF device THEN @ + 1 ELSE @]
    /\ UNCHANGED <<gTotalErrors, errTmp, reported>>

\* Execute, 630-635
ExecuteSetDevice(w, ok) ==
    /\ pc[w] = "ready"
    /\ IF ok THEN Goto(w, "Start") /\ UNCHANGED errVars
             ELSE Fatal(w, "return", TRUE)
    /\ UNCHANGED <<herdVars, planVars, flagVars, memVars, streamVars, queue, batchVars, statVars>>

\* Execute is called on a worker whose Prepare returned false: the method is
\* public and tests nothing before cudaSetDevice
ExecuteUnprepared(w) ==
    /\ pc[w] = "prepfailed"
    /\ Goto(w, "ready")
    /\ UNCHANGED <<herdVars, planVars, flagVars, memVars, streamVars, queue, batchVars, statVars,
                   errVars>>

\* Execute, 637-642
ExecuteStart(w, failAt) ==
    /\ pc[w] = "Start"
    /\ failAt \in StartFailPoints(Failed[w])
    /\ StartCanPass(handle[w], failAt)
    /\ IF StartAcquires(failAt)
       THEN /\ handle' = [handle EXCEPT ![w]["RndPnts"] = "live"]
            /\ allocLog' = [allocLog EXCEPT ![w] = Append(@, "RndPnts")]
       ELSE UNCHANGED <<handle, allocLog>>
    /\ IF failAt = 0 THEN Goto(w, "while") /\ UNCHANGED errVars
       ELSE Fatal(w, "return", failAt \notin {1, 3})
    /\ UNCHANGED <<herdVars, planVars, flagVars, hostTmp, freeLog, relCalls, streamVars, queue,
                   batchVars, statVars>>

\* gTotalErrors++ on a plain u32 shared by the worker threads: a load, then a store
ErrorsLoad(w) ==
    /\ pc[w] = "gTotalErrors.load"
    /\ errTmp' = [errTmp EXCEPT ![w] = gTotalErrors]
    /\ Goto(w, "gTotalErrors.store")
    /\ UNCHANGED <<herdVars, planVars, flagVars, memVars, streamVars, queue, batchVars, statVars,
                   gTotalErrors, errRet, reported, devFails>>

ErrorsStore(w) ==
    /\ pc[w] = "gTotalErrors.store"
    /\ gTotalErrors' = errTmp[w] + 1
    /\ reported' = [reported EXCEPT ![w] = @ + 1]
    /\ Goto(w, IF errRet[w] = "break" THEN "Release" ELSE "returned")
    /\ UNCHANGED <<herdVars, planVars, flagVars, memVars, streamVars, queue, batchVars, statVars,
                   errTmp, errRet, devFails>>

\* void Stop()
Stop(w) ==
    /\ pc[w] \notin {"idle", "prepfailed", "released"}
    /\ ~StopFlag[w]
    /\ StopFlag' = [StopFlag EXCEPT ![w] = TRUE]
    /\ UNCHANGED <<herdVars, planVars, Failed, prepRet, memVars, streamVars, queue, batchVars, statVars,
                   errVars, pc>>

(***************************************************************************)
(* One iteration of the loop of Execute (648-785), one device call a step. *)
(***************************************************************************)
\* a loop head that starts the next batch without reading the flag
WhileNoPoll(w, maxIter) ==
    /\ pc[w] = "while"
    /\ iter[w] < maxIter
    /\ Goto(w, "memset.DPs_out")
    /\ iter' = [iter EXCEPT ![w] = @ + 1]
    /\ evlog' = [evlog EXCEPT ![w] = <<>>]
    /\ warned' = [warned EXCEPT ![w] = 0]
    /\ copied' = [copied EXCEPT ![w] = 0]
    /\ forwarded' = [forwarded EXCEPT ![w] = 0]
    /\ UNCHANGED <<devCnt, cnt>>
    /\ UNCHANGED <<herdVars, planVars, flagVars, memVars, streamVars, queue, statVars, errVars>>

\* while (!StopFlag)
While(w, maxIter) ==
    /\ pc[w] = "while"
    /\ IF StopFlag[w]
       THEN /\ Goto(w, "Release")
            /\ UNCHANGED batchVars
       ELSE /\ iter[w] < maxIter
            /\ Goto(w, "memset.DPs_out")
            /\ iter' = [iter EXCEPT ![w] = @ + 1]
            /\ evlog' = [evlog EXCEPT ![w] = <<>>]
            /\ warned' = [warned EXCEPT ![w] = 0]
            /\ copied' = [copied EXCEPT ![w] = 0]
            /\ forwarded' = [forwarded EXCEPT ![w] = 0]
            /\ UNCHANGED <<devCnt, cnt>>
    /\ UNCHANGED <<herdVars, planVars, flagVars, memVars, streamVars, queue, statVars, errVars>>

Usable(s) == s = NullStream \/ streamState[s] = "alive"

\* an asynchronous call on queue s: cudaMemsetAsync, cudaMemcpyAsync, a kernel launch
AsyncCall(w, at, s, next, ok, critical) ==
    /\ pc[w] = at
    /\ IF ok
       THEN /\ queue' = IF Usable(s)
                        THEN [queue EXCEPT ![s] = Append(@, [w |-> w, op |-> at])]
                        ELSE queue
            /\ evlog' = [evlog EXCEPT ![w] = Append(@, at)]
            /\ Goto(w, next)
            /\ UNCHANGED errVars
       ELSE IF critical
            THEN Fatal(w, "break", TRUE) /\ UNCHANGED <<queue, evlog>>
            ELSE Goto(w, next) /\ UNCHANGED <<queue, evlog, errVars>>
    /\ UNCHANGED <<herdVars, planVars, flagVars, memVars, streamVars, statVars,
                   devCnt, cnt, warned, copied, forwarded, iter>>

\* a synchronize that returns without waiting for the queue
DrainedNoWait(s) == TRUE

\* cudaStreamSynchronize(s) returns cudaSuccess once everything issued on s is done
Drained(s) == queue[s] = <<>>

\* 653-672
MemsetDPsOut(w, ok) == AsyncCall(w, "memset.DPs_out", memoryStream, "memset.DPTable", ok, TRUE)
MemsetDPTable(w, ok) == AsyncCall(w, "memset.DPTable", memoryStream, "memset.LoopedKangs", ok, TRUE)
MemsetLoopedKangs(w, ok) == AsyncCall(w, "memset.LoopedKangs", memoryStream, "sync.reset", ok, TRUE)

\* 674-679
SyncReset(w, ok) ==
    /\ pc[w] = "sync.reset"
    /\ IF ok
       THEN /\ Drained(memoryStream)
            /\ evlog' = [evlog EXCEPT ![w] = Append(@, "sync.reset")]
            /\ Goto(w, "kernel")
            /\ UNCHANGED errVars
       ELSE Fatal(w, "break", TRUE) /\ UNCHANGED evlog
    /\ UNCHANGED <<herdVars, planVars, flagVars, memVars, streamVars, queue, statVars,
                   devCnt, cnt, warned, copied, forwarded, iter>>

\* 682-688
LaunchKernel(w, ok) == AsyncCall(w, "kernel", computeStream, "sync.kernel", ok, TRUE)

\* 691-696
SyncKernel(w, ok) ==
    /\ pc[w] = "sync.kernel"
    /\ IF ok
       THEN /\ Drained(computeStream)
            /\ evlog' = [evlog EXCEPT ![w] = Append(@, "sync.kernel")]
            /\ Goto(w, "memcpy.cnt")
            /\ UNCHANGED errVars
       ELSE Fatal(w, "break", TRUE) /\ UNCHANGED evlog
    /\ UNCHANGED <<herdVars, planVars, flagVars, memVars, streamVars, queue, statVars,
                   devCnt, cnt, warned, copied, forwarded, iter>>

\* 700-705
MemcpyCnt(w, ok) == AsyncCall(w, "memcpy.cnt", memoryStream, "sync.cnt", ok, TRUE)

\* a hit count passed on as read
ClampNone(c) == c

\* the clamp of 714-718
ClampTest(c) == c >= MAX_DP_CNT
Clamp(c) == IF ClampTest(c) THEN MAX_DP_CNT ELSE c

\* 707-721
SyncCnt(w, ok) ==
    /\ pc[w] = "sync.cnt"
    /\ IF ok
       THEN /\ Drained(memoryStream)
            /\ evlog' = [evlog EXCEPT ![w] = Append(@, "sync.cnt")]
            /\ cnt' = [cnt EXCEPT ![w] = Clamp(@)]
            /\ warned' = [warned EXCEPT ![w] = IF ClampTest(cnt[w]) THEN @ + 1 ELSE @]
            /\ Goto(w, IF Clamp(cnt[w]) # 0 THEN "memcpy.DPs" ELSE "memcpy.dbg")
            /\ UNCHANGED errVars
       ELSE Fatal(w, "break", TRUE) /\ UNCHANGED <<evlog, cnt, warned>>
    /\ UNCHANGED <<herdVars, planVars, flagVars, memVars, streamVars, queue, statVars,
                   devCnt, copied, forwarded, iter>>

\* 723-728
MemcpyDPs(w, ok) == AsyncCall(w, "memcpy.DPs", memoryStream, "sync.DPs", ok, TRUE)

\* 730-738
SyncDPs(w, ok) ==
    /\ pc[w] = "sync.DPs"
    /\ IF ok
       THEN /\ Drained(memoryStream)
            /\ evlog' = [evlog EXCEPT ![w] = Append(@, "sync.DPs") \o <<"AddPointsToList">>]
            /\ forwarded' = [forwarded EXCEPT ![w] = cnt[w]]
            /\ Goto(w, "memcpy.dbg")
            /\ UNCHANGED errVars
       ELSE Fatal(w, "break", TRUE) /\ UNCHANGED <<evlog, forwarded>>
    /\ UNCHANGED <<herdVars, planVars, flagVars, memVars, streamVars, queue, statVars,
                   devCnt, cnt, warned, copied, iter>>

\* a copy of the debug counters whose failure ends the loop
MemcpyDbgCritical(w, ok) ==
    AsyncCall(w, "memcpy.dbg", memoryStream, "memcpy.lcnt", ok, TRUE)

\* 742-753
MemcpyDbg(w, ok) == AsyncCall(w, "memcpy.dbg", memoryStream, "memcpy.lcnt", ok, FALSE)

MemcpyLcnt(w, ok) == AsyncCall(w, "memcpy.lcnt", memoryStream, "sync.diag", ok, FALSE)

\* cur_speed of 762-766
CurSpeed(kangs, tm) == (kangs * STEP_CNT) \div ((IF tm = 0 THEN 1 ELSE tm) * 1000)

\* an index that runs on past the window
NextStatsIndNoWrap(i) == i + 1

\* 769: the index of the next sample
NextStatsInd(i) == (i + 1) % STATS_WND_SIZE

\* 755-769
SyncDiag(w, ok, tm) ==
    /\ pc[w] = "sync.diag"
    /\ ok => Drained(memoryStream)
    /\ evlog' = [evlog EXCEPT ![w] = IF ok THEN Append(@, "sync.diag") ELSE @]
    /\ SpeedStats' = [SpeedStats EXCEPT ![w][cur_stats_ind[w]] = CurSpeed(KangCnt[w], tm)]
    /\ cur_stats_ind' = [cur_stats_ind EXCEPT ![w] = NextStatsInd(@)]
    /\ samples' = [samples EXCEPT ![w] = @ + 1]
    /\ sampleLog' = [sampleLog EXCEPT ![w] = Append(@, CurSpeed(KangCnt[w], tm))]
    /\ Goto(w, "while")
    /\ UNCHANGED <<herdVars, planVars, flagVars, memVars, streamVars, queue, errVars,
                   devCnt, cnt, warned, copied, forwarded, iter>>

\* 787
ExecuteRelease(w) ==
    /\ pc[w] = "Release"
    /\ ReleaseBody(w)
    /\ Goto(w, "returned")
    /\ UNCHANGED <<herdVars, planVars, flagVars, hostTmp, allocLog, computeStream, memoryStream,
                   queue, batchVars, statVars, errVars>>

(***************************************************************************)
(* The device completes the oldest command of a queue.  hits is what the   *)
(* step kernel leaves in the hit counter.                                  *)
(***************************************************************************)
DeviceComplete(s, hits) ==
    /\ queue[s] # <<>>
    /\ LET c == Head(queue[s])
       IN  /\ devCnt' = [devCnt EXCEPT ![c.w] =
                            IF c.op = "memset.DPs_out" THEN 0
                            ELSE IF c.op = "kernel" THEN hits ELSE @]
           /\ cnt' = [cnt EXCEPT ![c.w] = IF c.op = "memcpy.cnt" THEN devCnt[c.w] ELSE @]
           /\ copied' = [copied EXCEPT ![c.w] = IF c.op = "memcpy.DPs" THEN cnt[c.w] ELSE @]
    /\ queue' = [queue EXCEPT ![s] = Tail(@)]
    /\ UNCHANGED <<herdVars, planVars, flagVars, memVars, streamVars, statVars, errVars,
                   warned, forwarded, evlog, iter, pc>>

(***************************************************************************)
(* Initial states.                                                         *)
(***************************************************************************)
\* the capability descriptors the worker specifications run with: a legacy
\* device, a current-generation device whose product exceeds the ceiling, and
\* a device of compute capability 9 or more
Profiles ==
    {[mp |-> 20, old |-> TRUE, major |-> 7],
     [mp |-> 98, old |-> FALSE, major |-> 8],
     [mp |-> 170, old |-> FALSE, major |-> 9]}

DefaultProfile == [mp |-> 98, old |-> FALSE, major |-> 8]

\* profile[w] is the descriptor of worker w, kp[w] the indeterminate value of
\* its Kparams pointers, kangs[w] its KangCnt and at[w] where it stands
InitWord(profile, kp, kangs, at, rng, word) ==
    /\ mpCnt = [w \in WorkerIds |-> profile[w].mp]
    /\ IsOldGpu = [w \in WorkerIds |-> profile[w].old]
    /\ devMajor = [w \in WorkerIds |-> profile[w].major]
    /\ Kparams = [w \in WorkerIds |-> NoParams]
    /\ KangCnt = kangs
    /\ calcRet = [w \in WorkerIds |-> 0]
    /\ StopFlag = [w \in WorkerIds |-> FALSE]
    /\ Failed = [w \in WorkerIds |-> FALSE]
    /\ prepRet = [w \in WorkerIds |-> "none"]
    /\ handle = [w \in WorkerIds |-> NewHandles(kp[w])]
    /\ hostTmp = [w \in WorkerIds |-> {}]
    /\ allocLog = [w \in WorkerIds |-> <<>>]
    /\ freeLog = [w \in WorkerIds |-> <<>>]
    /\ relCalls = [w \in WorkerIds |-> 0]
    /\ computeStream = NullStream
    /\ memoryStream = NullStream
    /\ streamState = [s \in Streams |-> "none"]
    /\ queue = [s \in Streams |-> <<>>]
    /\ devCnt = [w \in WorkerIds |-> 0]
    /\ cnt = [w \in WorkerIds |-> 0]
    /\ warned = [w \in WorkerIds |-> 0]
    /\ copied = [w \in WorkerIds |-> 0]
    /\ forwarded = [w \in WorkerIds |-> 0]
    /\ evlog = [w \in WorkerIds |-> <<>>]
    /\ iter = [w \in WorkerIds |-> 0]
    /\ samples = [w \in WorkerIds |-> 0]
    /\ sampleLog = [w \in WorkerIds |-> <<>>]
    /\ SpeedStats = [w \in WorkerIds |-> [i \in 0..(STATS_WND_SIZE - 1) |-> 0]]
    /\ cur_stats_ind = [w \in WorkerIds |-> 0]
    /\ gTotalErrors = 0
    /\ errTmp = [w \in WorkerIds |-> 0]
    /\ errRet = [w \in WorkerIds |-> "return"]
    /\ reported = [w \in WorkerIds |-> 0]
    /\ devFails = [w \in WorkerIds |-> 0]
    /\ laneDist = <<>>
    /\ lanePnt = <<>>
    /\ lanePriv = <<>>
    /\ Range = rng
    /\ hitWord = word
    /\ copySize = 0
    /\ pc = at

ZeroWord == [hi |-> 0, lo |-> 0]

InitRange(profile, kp, kangs, at, rng) == InitWord(profile, kp, kangs, at, rng, ZeroWord)

InitWorkers(profile, kp, kangs, at) == InitRange(profile, kp, kangs, at, MaxRange)

Only1(x, d) == [w \in WorkerIds |-> IF w = 1 THEN x ELSE d]
NoKangs == [w \in WorkerIds |-> 0]
AllIdle == [w \in WorkerIds |-> "idle"]

(***************************************************************************)
(* PlanSpec: the two planner entry points applied to every capability      *)
(* descriptor of the bounds, on worker object 1.                           *)
(***************************************************************************)
PlanInit ==
    \E m \in MpCnts, o \in BOOLEAN, j \in Majors :
        InitWorkers(Only1([mp |-> m, old |-> o, major |-> j], DefaultProfile),
                    Only1("null", "null"), NoKangs, AllIdle)

\* the planning step of Prepare: lines 156-203
PlanPrepare ==
    /\ pc[1] \in {"idle", "calc"}
    /\ LET p == PreparePlan(mpCnt[1], IsOldGpu[1], devMajor[1])
       IN  /\ Kparams' = [Kparams EXCEPT ![1] = p]
           /\ KangCnt' = [KangCnt EXCEPT ![1] = p.KangCnt]
    /\ pc' = [pc EXCEPT ![1] = "planned"]
    /\ UNCHANGED <<herdVars, mpCnt, IsOldGpu, devMajor, calcRet, flagVars, memVars, streamVars,
                   queue, batchVars, statVars, errVars>>

\* int CalcKangCnt()
PlanCalc ==
    /\ pc[1] \in {"idle", "planned"}
    /\ LET g == CalcPlan(mpCnt[1], IsOldGpu[1], devMajor[1])
       IN  /\ Kparams' = [Kparams EXCEPT ![1].BlockCnt = g.BlockCnt,
                                         ![1].BlockSize = g.BlockSize,
                                         ![1].GroupCnt = g.GroupCnt]
           /\ calcRet' = [calcRet EXCEPT ![1] = CalcReturn(g)]
    /\ pc' = [pc EXCEPT ![1] = "calc"]
    /\ UNCHANGED <<herdVars, mpCnt, IsOldGpu, devMajor, KangCnt, flagVars, memVars, streamVars,
                   queue, batchVars, statVars, errVars>>

PlanNext == PlanPrepare \/ PlanCalc

PlanSpec == PlanInit /\ [][PlanNext]_vars

(***************************************************************************)
(* Spec: one worker object through its whole life, every failure point,    *)
(* with the device completing commands on its own.                         *)
(***************************************************************************)
\* what the step kernel may leave in the hit counter
HitCounts == {0, 1, MAX_DP_CNT - 1, MAX_DP_CNT, MAX_DP_CNT + 1}

\* GetTickCount64() differences of one iteration, in ms
TickDeltas == {0, 400}

Init ==
    \E p \in Profiles, k \in {"null", "garbage"} :
        InitWorkers(Only1(p, DefaultProfile), Only1(k, "null"), NoKangs, AllIdle)

WorkerStep(w, hits, ticks) ==
    \/ \E f \in FailPoints(IsOldGpu[w]), p \in PrioOutcomes : Prepare(w, f, p)
    \/ ReleaseCall(w)
    \/ \E ok \in BOOLEAN : ExecuteSetDevice(w, ok)
    \/ \E f \in 0..Len(StartSteps) : ExecuteStart(w, f)
    \/ ErrorsLoad(w)
    \/ ErrorsStore(w)
    \/ While(w, MaxIter)
    \/ \E ok \in BOOLEAN : MemsetDPsOut(w, ok)
    \/ \E ok \in BOOLEAN : MemsetDPTable(w, ok)
    \/ \E ok \in BOOLEAN : MemsetLoopedKangs(w, ok)
    \/ \E ok \in BOOLEAN : SyncReset(w, ok)
    \/ \E ok \in BOOLEAN : LaunchKernel(w, ok)
    \/ \E ok \in BOOLEAN : SyncKernel(w, ok)
    \/ \E ok \in BOOLEAN : MemcpyCnt(w, ok)
    \/ \E ok \in BOOLEAN : SyncCnt(w, ok)
    \/ \E ok \in BOOLEAN : MemcpyDPs(w, ok)
    \/ \E ok \in BOOLEAN : SyncDPs(w, ok)
    \/ \E ok \in BOOLEAN : MemcpyDbg(w, ok)
    \/ \E ok \in BOOLEAN : MemcpyLcnt(w, ok)
    \/ \E ok \in BOOLEAN, tm \in ticks : SyncDiag(w, ok, tm)
    \/ ExecuteRelease(w)

Device(hits) == \E s \in Streams, h \in hits : DeviceComplete(s, h)

Next ==
    \/ WorkerStep(1, HitCounts, TickDeltas)
    \/ Stop(1)
    \/ Device(HitCounts)

Spec == Init /\ [][Next]_vars

\* the fairness of a running thread and of a device that completes its commands
FairHits == {0, 1}
FairTicks == {400}

FairNext ==
    \/ WorkerStep(1, FairHits, FairTicks)
    \/ Stop(1)
    \/ Device(FairHits)

FairSpec ==
    /\ Init
    /\ [][FairNext]_vars
    /\ WF_vars(WorkerStep(1, FairHits, FairTicks))
    /\ WF_vars(Device(FairHits))

\* UnpreparedSpec: as Spec, and the caller may run Execute whatever Prepare
\* has returned
UnpreparedNext ==
    \/ WorkerStep(1, FairHits, FairTicks)
    \/ ExecuteUnprepared(1)
    \/ Stop(1)
    \/ Device(FairHits)

UnpreparedSpec == Init /\ [][UnpreparedNext]_vars

(***************************************************************************)
(* GetStatsSpeed (790-796), and StatsSpec: one worker whose device calls   *)
(* all succeed, run for MaxStatIter batches.  At most MaxOddTicks samples  *)
(* of the window come from a batch that took no measurable time.           *)
(***************************************************************************)
RECURSIVE SumStats(_, _)
SumStats(stats, i) == IF i = 0 THEN stats[0] ELSE SumStats(stats, i - 1) + stats[i]

GetStatsSpeed(w) == SumStats(SpeedStats[w], STATS_WND_SIZE - 1) \div STATS_WND_SIZE

StatTicks(w) ==
    IF Cardinality({j \in 0..(STATS_WND_SIZE - 1) :
                       SpeedStats[w][j] = CurSpeed(KangCnt[w], 0)}) < MaxOddTicks
    THEN {0, 400}
    ELSE {400}

StatsInit ==
    InitWorkers([w \in WorkerIds |-> DefaultProfile], [w \in WorkerIds |-> "null"],
                NoKangs, AllIdle)

StatsNext ==
    \/ Prepare(1, 0, "ok")
    \/ ExecuteSetDevice(1, TRUE)
    \/ ExecuteStart(1, 0)
    \/ While(1, MaxStatIter)
    \/ MemsetDPsOut(1, TRUE)
    \/ MemsetDPTable(1, TRUE)
    \/ MemsetLoopedKangs(1, TRUE)
    \/ SyncReset(1, TRUE)
    \/ LaunchKernel(1, TRUE)
    \/ SyncKernel(1, TRUE)
    \/ MemcpyCnt(1, TRUE)
    \/ SyncCnt(1, TRUE)
    \/ MemcpyDbg(1, TRUE)
    \/ MemcpyLcnt(1, TRUE)
    \/ \E tm \in StatTicks(1) : SyncDiag(1, TRUE, tm)
    \/ Device({0})

StatsSpec == StatsInit /\ [][StatsNext]_vars

(***************************************************************************)
(* MultiSpec: NumWorkers workers, each prepared with success and then run  *)
(* in a thread of its own.                                                 *)
(***************************************************************************)
MultiInit ==
    InitWorkers([w \in WorkerIds |-> DefaultProfile], [w \in WorkerIds |-> "null"],
                NoKangs, AllIdle)

ThreadStep(w) ==
    \/ Prepare(w, 0, "ok")
    \/ \E ok \in BOOLEAN : ExecuteSetDevice(w, ok)
    \/ \E f \in 0..Len(StartSteps) : ExecuteStart(w, f)
    \/ ErrorsLoad(w)
    \/ ErrorsStore(w)
    \/ While(w, MultiIter)
    \/ \E ok \in BOOLEAN : MemsetDPsOut(w, ok)
    \/ \E ok \in BOOLEAN : MemsetDPTable(w, ok)
    \/ \E ok \in BOOLEAN : MemsetLoopedKangs(w, ok)
    \/ \E ok \in BOOLEAN : SyncReset(w, ok)
    \/ \E ok \in BOOLEAN : LaunchKernel(w, ok)
    \/ \E ok \in BOOLEAN : SyncKernel(w, ok)
    \/ \E ok \in BOOLEAN : MemcpyCnt(w, ok)
    \/ \E ok \in BOOLEAN : SyncCnt(w, ok)
    \/ \E ok \in BOOLEAN : MemcpyDPs(w, ok)
    \/ \E ok \in BOOLEAN : SyncDPs(w, ok)
    \/ \E ok \in BOOLEAN : MemcpyDbg(w, ok)
    \/ \E ok \in BOOLEAN : MemcpyLcnt(w, ok)
    \/ \E ok \in BOOLEAN : SyncDiag(w, ok, 400)
    \/ ExecuteRelease(w)

MultiNext ==
    \/ \E w \in WorkerIds : ThreadStep(w)
    \/ Device({1})

MultiSpec == MultiInit /\ [][MultiNext]_vars

(***************************************************************************)
(* HerdSpec: herd generation in Start (517-538), lane by lane, for every   *)
(* KangCnt of the bounds.                                                  *)
(***************************************************************************)
\* GenerateRndDistances, 486: the herd test of lane i
DistHerd(i, kangs) == IF i < kangs \div 3 THEN "TAME" ELSE "WILD"

\* EcInt::RndBits(nbits) applied to the word raw of the random source: the low
\* nbits bits of it in data[0], the other words zero (nbits below the word size)
RndBits(nbits, raw) == [data |-> <<raw % (2 ^ nbits), 0, 0, 0>>]

\* an EcInt whose low bit has been left as drawn
KeepLowBit(d) == d

\* 491: d.data[0] &= 0xFFFFFFFFFFFFFFFE
ClearLowBit(d) == [d EXCEPT !.data[1] = @ - (@ % 2)]

\* 486-493: the distance of lane i and the 24 bytes of it copied to priv
RndDistance(i, kangs, range, raw) ==
    LET d == IF DistHerd(i, kangs) = "TAME"
             THEN RndBits(range - 4, raw)
             ELSE ClearLowBit(RndBits(range - 1, raw))
    IN  SubSeq(d.data, 1, 3)

\* a split of the wild lanes at twice the tame count
PntHerdThirds(i, kangs) ==
    IF i < kangs \div 3 THEN "zero"
    ELSE IF i < 2 * (kangs \div 3) THEN "PntA" ELSE "PntB"

\* Start, 531-537: the starting point of lane i
PntHerd(i, kangs) ==
    IF i < kangs \div 3 THEN "zero"
    ELSE IF i < (2 * kangs) \div 3 THEN "PntA" ELSE "PntB"

\* struct TPointPriv under #pragma pack(1): its fields in order, with their
\* sizes in bytes
TPointPriv == <<[name |-> "x", bytes |-> 8 * 8], [name |-> "y", bytes |-> 8 * 8],
                [name |-> "priv", bytes |-> 3 * 8]>>

RECURSIVE FieldsBytes(_, _)
FieldsBytes(fields, n) == IF n = 0 THEN 0 ELSE FieldsBytes(fields, n - 1) + fields[n].bytes

SizeofTPointPriv == FieldsBytes(TPointPriv, Len(TPointPriv))

OffsetOf(name) ==
    FieldsBytes(TPointPriv, (CHOOSE n \in 1..Len(TPointPriv) : TPointPriv[n].name = name) - 1)

\* Start, 517 and 541: the bytes allocated for RndPnts, which are the bytes
\* uploaded to Kparams.Kangs
KangRecBytes == 96
RndPntsBytes(kangs) == kangs * KangRecBytes

\* the bytes [lo, hi) of the RndPnts block that a write of n bytes to a field
\* of RndPnts[i] covers
FieldWrite(i, name, n) ==
    [lo |-> i * SizeofTPointPriv + OffsetOf(name),
     hi |-> i * SizeofTPointPriv + OffsetOf(name) + n]

\* GenerateRndDistances, 493: memcpy(RndPnts[i].priv, d.data, 24)
PrivWrite(i) == FieldWrite(i, "priv", 24)

\* Start, 531-537: memset / memcpy of 64 bytes at RndPnts[i].x
PntWrite(i) == FieldWrite(i, "x", 64)

\* the words the random source can return, and the word of all ones
RawWords == 0..(2 ^ MaxRange - 1)
AllOnes == {2 ^ MaxRange - 1}

HerdInit ==
    \E k \in 0..MaxHerd :
        InitWorkers([w \in WorkerIds |-> DefaultProfile], [w \in WorkerIds |-> "null"],
                    Only1(k, 0), Only1("GenerateRndDistances", "idle"))

\* one pass of the loop of GenerateRndDistances (483-494)
GenerateRndDistancesLane(raws) ==
    /\ pc[1] = "GenerateRndDistances"
    /\ LET i == Len(laneDist)
       IN  IF i < KangCnt[1]
           THEN /\ laneDist' = Append(laneDist, DistHerd(i, KangCnt[1]))
                /\ \E raw \in raws :
                      lanePriv' = Append(lanePriv, RndDistance(i, KangCnt[1], Range, raw))
                /\ UNCHANGED pc
           ELSE /\ pc' = [pc EXCEPT ![1] = "Start.points"]
                /\ UNCHANGED <<laneDist, lanePriv>>
    /\ UNCHANGED <<lanePnt, Range, hitWord, copySize, planVars, flagVars, memVars, streamVars, queue, batchVars,
                   statVars, errVars>>

\* one pass of the loop of Start (529-538)
StartLane ==
    /\ pc[1] = "Start.points"
    /\ LET i == Len(lanePnt)
       IN  IF i < KangCnt[1]
           THEN /\ lanePnt' = Append(lanePnt, PntHerd(i, KangCnt[1]))
                /\ UNCHANGED pc
           ELSE /\ pc' = [pc EXCEPT ![1] = "Start.upload"]
                /\ UNCHANGED lanePnt
    /\ UNCHANGED <<laneDist, lanePriv, Range, hitWord, copySize, planVars, flagVars, memVars, streamVars, queue,
                   batchVars, statVars, errVars>>

HerdNext == GenerateRndDistancesLane(AllOnes) \/ StartLane

HerdSpec == HerdInit /\ [][HerdNext]_vars

(***************************************************************************)
(* CopySpec: the copy-back of one batch (699-739) over the full width of   *)
(* the hit counter.  The counter is a u32 on the device and is read into   *)
(* `int cnt`; a 32-bit word is kept as its two 16-bit halves.              *)
(***************************************************************************)
Half == 2 ^ 16
MaxInt == (2 ^ 30 - 1) * 2 + 1
MinInt == (-MaxInt) - 1

\* the int whose representation is the word u, and the word of an int
ToInt(u) == IF u.hi >= Half \div 2 THEN (u.hi - Half) * Half + u.lo ELSE u.hi * Half + u.lo
FromInt(c) == [hi |-> (c \div Half) % Half, lo |-> c % Half]

\* 232-235 and 359: the bytes of the device output ring and of the host buffer
DeviceRingBytes == MAX_DP_CNT * GPU_DP_SIZE + 16
HostDPsBytes == MAX_DP_CNT * GPU_DP_SIZE

\* Kparams.DPs_out + 4 on a u32*: the byte at which the records start
RecordsAt == 4 * 4

\* cnt * GPU_DP_SIZE in int, the product reduced to 32 bits
WrapMul(c) ==
    LET u == FromInt(c)
        p == GPU_DP_SIZE * u.lo
    IN  ToInt([hi |-> (GPU_DP_SIZE * u.hi + p \div Half) % Half, lo |-> p % Half])

\* 725: the values cnt * GPU_DP_SIZE can have; when the product does not fit
\* an int the expression is undefined: the wrapped product or either end of int
CopySizes(c) ==
    IF c <= MaxInt \div GPU_DP_SIZE /\ c >= -(MaxInt \div GPU_DP_SIZE)
    THEN {c * GPU_DP_SIZE}
    ELSE {WrapMul(c), MinInt, MaxInt}

\* the counter values the specification runs with
HitWords ==
    {[hi |-> h, lo |-> l] : h \in {0, 1, 15, 16, 17, Half \div 2 - 1, Half \div 2, Half - 1},
                            l \in {0, 1, 2, Half - 2, Half - 1}}

CopyInit ==
    \E u \in HitWords :
        InitWord([w \in WorkerIds |-> DefaultProfile], [w \in WorkerIds |-> "null"],
                 NoKangs, Only1("copy.cnt", "idle"), MaxRange, u)

\* 699-712: the four bytes of the counter arrive in cnt
CopyReadCnt ==
    /\ pc[1] = "copy.cnt"
    /\ cnt' = [cnt EXCEPT ![1] = ToInt(hitWord)]
    /\ Goto(1, "copy.clamp")
    /\ UNCHANGED <<herdVars, planVars, flagVars, memVars, streamVars, queue, statVars, errVars,
                   devCnt, warned, copied, forwarded, evlog, iter>>

\* 714-721
CopyClamp ==
    /\ pc[1] = "copy.clamp"
    /\ cnt' = [cnt EXCEPT ![1] = Clamp(@)]
    /\ warned' = [warned EXCEPT ![1] = IF ClampTest(cnt[1]) THEN @ + 1 ELSE @]
    /\ Goto(1, IF Clamp(cnt[1]) # 0 THEN "copy.DPs" ELSE "copy.done")
    /\ UNCHANGED <<herdVars, planVars, flagVars, memVars, streamVars, queue, statVars, errVars,
                   devCnt, copied, forwarded, evlog, iter>>

\* 723-725: the copy of the records is issued
CopyDPs ==
    /\ pc[1] = "copy.DPs"
    /\ \E size \in CopySizes(cnt[1]) : copySize' = size
    /\ Goto(1, "copy.done")
    /\ UNCHANGED <<laneDist, lanePnt, lanePriv, Range, hitWord, planVars, flagVars, memVars,
                   streamVars, queue, statVars, errVars, batchVars>>

CopyNext == CopyReadCnt \/ CopyClamp \/ CopyDPs

CopySpec == CopyInit /\ [][CopyNext]_vars

(***************************************************************************)
(* DistSpec: GenerateRndDistances over every bit range of the bounds and   *)
(* every word the random source can return.                                *)
(***************************************************************************)
DistInit ==
    \E k \in 0..MaxDistLanes, r \in 4..MaxRange :
        InitRange([w \in WorkerIds |-> DefaultProfile], [w \in WorkerIds |-> "null"],
                  Only1(k, 0), Only1("GenerateRndDistances", "idle"), r)

DistNext == GenerateRndDistancesLane(RawWords)

DistSpec == DistInit /\ [][DistNext]_vars

(***************************************************************************)
(* The claims.                                                             *)
(***************************************************************************)
\* C1: after either planner entry point has run, the stored kangaroo count
\* equals BlockSize * GroupCnt * BlockCnt and does not exceed the hard
\* ceiling, the clamped cases included.
C1_PlannerProduct ==
    /\ pc[1] = "planned" =>
          /\ KangCnt[1] = Kparams[1].BlockSize * Kparams[1].GroupCnt * Kparams[1].BlockCnt
          /\ KangCnt[1] <= MAX_SAFE_KANG_CNT
    /\ pc[1] = "calc" =>
          /\ calcRet[1] = Kparams[1].BlockSize * Kparams[1].GroupCnt * Kparams[1].BlockCnt
          /\ calcRet[1] <= MAX_SAFE_KANG_CNT_Calc

Reverse(s) == [i \in 1..Len(s) |-> s[Len(s) + 1 - i]]
IsPrefix(s, t) == Len(s) <= Len(t) /\ \A i \in 1..Len(s) : s[i] = t[i]
Count(s, v) == Cardinality({i \in 1..Len(s) : s[i] = v})

\* the buffers the frees of worker w released, in the order of the frees
Released(w) ==
    LET live == SelectSeq(freeLog[w], LAMBDA r : r[2] = "live")
    IN  [i \in 1..Len(live) |-> live[i][1]]

\* C2: when Prepare returns false after k buffers were acquired, every one of
\* them has been released, in reverse order of acquisition, and no buffer the
\* failed call acquired remains allocated.
C2_FailedPrepareReleasesAll ==
    \A w \in WorkerIds :
        pc[w] = "prepfailed" =>
            /\ Live(w) = {}
            /\ hostTmp[w] = {}
            /\ Released(w) = Reverse(allocLog[w])

\* C3: Release after a Prepare that failed frees exactly the buffers that were
\* acquired, each exactly once, and issues no free on a pointer that was never
\* set or that is stale.
C3_ReleaseFreesExactlyAcquired ==
    \A w \in WorkerIds :
        pc[w] = "released" =>
            /\ \A b \in SeqRange(allocLog[w]) : Count(freeLog[w], <<b, "live">>) = 1
            /\ \A i \in 1..Len(freeLog[w]) : freeLog[w][i][2] \in {"live", "null"}

\* C4: every way Execute returns after a successful Prepare has passed through
\* Release exactly once, so that no buffer of the worker is still allocated.
C4_ExecuteReturnsThroughRelease ==
    \A w \in WorkerIds :
        pc[w] = "returned" => relCalls[w] = 1 /\ Live(w) = {}

\* the commands of worker w that queue s holds, and those any queue holds
OnQueue(s, w) == {x.op : x \in {y \in SeqRange(queue[s]) : y.w = w}}
Pending(w) == UNION {OnQueue(s, w) : s \in Streams}

IterationOrder ==
    <<"memset.DPs_out", "memset.DPTable", "memset.LoopedKangs", "sync.reset",
      "kernel", "sync.kernel", "memcpy.cnt", "sync.cnt",
      "memcpy.DPs", "sync.DPs", "AddPointsToList">>
Diagnostics == {"memcpy.dbg", "memcpy.lcnt", "sync.diag"}
Resets == {"memset.DPs_out", "memset.DPTable", "memset.LoopedKangs"}
CopyBacks == {"memcpy.cnt", "memcpy.DPs"}
Critical(log) == SelectSeq(log, LAMBDA e : e \notin Diagnostics)

\* C5: in every iteration the three resets are issued on the transfer queue,
\* the transfer queue is waited on, the kernel is launched on the compute queue,
\* the compute queue is waited on, the hit count and then the DP records are
\* copied back on the transfer queue and waited for before the records are
\* forwarded; the kernel never runs beside a reset or a copy-back, and no reset
\* is issued while a copy-back of the iteration before is still in flight (a
\* diagnostics copy still in flight stays ahead of the resets on its queue).
C5_IterationOrder ==
    \A w \in WorkerIds :
        /\ IsPrefix(Critical(evlog[w]), IterationOrder)
        /\ SeqRange(evlog[w]) \cap Diagnostics # {} =>
              \/ Len(Critical(evlog[w])) = Len(IterationOrder)
              \/ Len(Critical(evlog[w])) = 8 /\ cnt[w] = 0
        /\ \A s \in Streams :
              /\ "kernel" \in OnQueue(s, w) => s = computeStream
              /\ OnQueue(s, w) \ {"kernel"} # {} => s = memoryStream
        /\ "kernel" \in Pending(w) => Pending(w) = {"kernel"}
        /\ Pending(w) \cap Resets # {} => Pending(w) \cap CopyBacks = {}
        /\ \A s \in Streams : \A i, j \in 1..Len(queue[s]) :
              /\ queue[s][i].w = w /\ queue[s][i].op \in Resets
              /\ queue[s][j].w = w /\ queue[s][j].op \in CopyBacks \cup Diagnostics
              => j < i
        /\ "AddPointsToList" \in SeqRange(evlog[w]) =>
              copied[w] = cnt[w] /\ "memcpy.DPs" \notin Pending(w)

\* a second iteration has forwarded its records: its resets followed the
\* copy-back of the first
C5_Witness ==
    /\ iter[1] = 2
    /\ "AddPointsToList" \in SeqRange(evlog[1])
    /\ copied[1] = MAX_DP_CNT

\* C6: a fatal device-API failure in Prepare, in Start or in a critical step of
\* an iteration increments the shared error counter exactly once and ends that
\* worker, and no other worker's stop flag or state changes.
C6_FatalFailureCountedOnce ==
    \A w \in WorkerIds :
        pc[w] \in {"prepfailed", "returned"} /\ devFails[w] > 0 =>
            /\ devFails[w] = 1
            /\ reported[w] = 1
            /\ gTotalErrors = 1
            /\ \A v \in WorkerIds \ {w} : pc[v] = "idle" /\ ~StopFlag[v]

RECURSIVE SumOver(_, _)
SumOver(f, n) == IF n = 0 THEN 0 ELSE f[n] + SumOver(f, n - 1)

\* C7: with several workers running Execute, once all of them have returned the
\* shared error counter equals the number of failures the workers reported.
C7_NoIncrementLost ==
    (\A w \in WorkerIds : pc[w] = "returned") =>
        gTotalErrors = SumOver(reported, NumWorkers)

AfterClamp == {"memcpy.DPs", "sync.DPs", "memcpy.dbg", "memcpy.lcnt", "sync.diag"}

BatchPcs ==
    {"memset.DPs_out", "memset.DPTable", "memset.LoopedKangs", "sync.reset", "kernel",
     "sync.kernel", "memcpy.cnt", "sync.cnt", "memcpy.DPs", "sync.DPs", "memcpy.dbg",
     "memcpy.lcnt", "sync.diag"}

\* worker w is inside the loop of Execute or on its way from it to Release
InLoop(w) ==
    \/ pc[w] \in BatchPcs \cup {"while", "Release"}
    \/ pc[w] \in {"gTotalErrors.load", "gTotalErrors.store"} /\ errRet[w] = "break"

\* every batch started has recorded its speed sample, unless a fatal error ended it
BatchesComplete ==
    \A w \in WorkerIds :
        /\ pc[w] = "while" => samples[w] = iter[w]
        /\ pc[w] \in BatchPcs => samples[w] = iter[w] - 1
        /\ pc[w] \in {"Release", "returned"} /\ reported[w] = 0 => samples[w] = iter[w]

\* the flag stops the worker at the head of the loop and nowhere else
StopAtBoundary ==
    \A w \in WorkerIds :
        /\ StopFlag[w] /\ pc[w] = "while" => pc'[w] \in {"while", "Release"}
        /\ pc[w] \in BatchPcs =>
              pc'[w] \in BatchPcs \cup {"while", "gTotalErrors.load"}
        /\ pc[w] \in {"Release", "returned"} => iter'[w] = iter[w]

\* C9: the stop flag is read only between iterations: the batch in flight when
\* Stop() is called runs to its speed sample, no batch starts once the flag has
\* been observed, and the worker reaches Release and returns.
C9_StopBetweenIterations ==
    /\ []BatchesComplete
    /\ [][StopAtBoundary]_vars
    /\ \A w \in WorkerIds :
          (StopFlag[w] /\ InLoop(w)) ~> (pc[w] = "returned" /\ relCalls[w] = 1)

\* the flag was set while a batch was in flight, and the batch has gone on to
\* its last step
C9_Witness ==
    /\ StopFlag[1]
    /\ pc[1] = "sync.diag"
    /\ forwarded[1] > 0

\* C10: the lanes with a zero starting point number floor(KangCnt / 3), the
\* lanes starting at PntA and at PntB share the rest and differ by at most one,
\* and GenerateRndDistances draws a TAME distance exactly for the lanes Start
\* gives the zero starting point.
C10_HerdPartition ==
    pc[1] = "Start.upload" =>
        LET K == KangCnt[1]
            T == Count(lanePnt, "zero")
            A == Count(lanePnt, "PntA")
            B == Count(lanePnt, "PntB")
        IN  /\ Len(lanePnt) = K /\ Len(laneDist) = K
            /\ 3 * T <= K /\ K < 3 * T + 3
            /\ A + B = K - T
            /\ A - B \in {-1, 0, 1}
            /\ \A i \in 1..K : laneDist[i] = "TAME" <=> lanePnt[i] = "zero"

\* a herd of 10 lanes: 3 tame, 3 at PntA, 4 at PntB
C10_Witness ==
    /\ pc[1] = "Start.upload"
    /\ KangCnt[1] = 10
    /\ Count(lanePnt, "PntB") = 4
    /\ Count(laneDist, "TAME") = 3

\* C11: after GenerateRndDistances, whatever the random source returned, the
\* distance of every Tame lane lies in [0, 2^(Range-4)) and the distance of
\* every Wild lane lies in [0, 2^(Range-1)) and is even.
C11_DistanceRanges ==
    /\ pc[1] = "Start.points" => Len(lanePriv) = KangCnt[1]
    /\ \A i \in 1..Len(lanePriv) :
          LET priv == lanePriv[i]
          IN  /\ priv[2] = 0 /\ priv[3] = 0
              /\ priv[1] >= 0
              /\ IF i - 1 < KangCnt[1] \div 3
                 THEN priv[1] < 2 ^ (Range - 4)
                 ELSE priv[1] < 2 ^ (Range - 1) /\ priv[1] % 2 = 0

\* three lanes done: the tame one drew the largest tame distance, the last
\* wild one the largest wild distance
C11_Witness ==
    /\ pc[1] = "Start.points"
    /\ KangCnt[1] = 3 /\ Range = MaxRange
    /\ lanePriv[1][1] = 2 ^ (MaxRange - 4) - 1
    /\ lanePriv[3][1] = 2 ^ (MaxRange - 1) - 2

\* the sum of the last n entries of a sequence
RECURSIVE SumLast(_, _)
SumLast(s, n) == IF n = 0 THEN 0 ELSE s[Len(s) - n + 1] + SumLast(s, n - 1)

\* C12: once 16 iterations have completed since Prepare, GetStatsSpeed returns
\* the sum of the 16 most recent speed samples divided by 16, truncating; each
\* completed iteration records one sample, which replaces the oldest one, and
\* the write index stays within [0, 16).
C12_RollingMean ==
    LET n == Len(sampleLog[1])
    IN  /\ cur_stats_ind[1] \in 0..(STATS_WND_SIZE - 1)
        /\ cur_stats_ind[1] = n % STATS_WND_SIZE
        /\ pc[1] = "while" => n = iter[1]
        /\ pc[1] \in BatchPcs => n = iter[1] - 1
        /\ \A i \in 1..n :
              i > n - STATS_WND_SIZE => SpeedStats[1][(i - 1) % STATS_WND_SIZE] = sampleLog[1][i]
        /\ n >= STATS_WND_SIZE =>
              GetStatsSpeed(1) = SumLast(sampleLog[1], STATS_WND_SIZE) \div STATS_WND_SIZE

\* seventeen samples: the first, of a batch of zero ticks, has been replaced
\* by the seventeenth and the mean is that of samples 2..17
C12_Witness ==
    /\ Len(sampleLog[1]) = STATS_WND_SIZE + 1
    /\ sampleLog[1][1] = CurSpeed(KangCnt[1], 0)
    /\ sampleLog[1][STATS_WND_SIZE] = CurSpeed(KangCnt[1], 0)
    /\ SpeedStats[1][0] = CurSpeed(KangCnt[1], 400)
    /\ GetStatsSpeed(1) = (15 * CurSpeed(KangCnt[1], 400) + CurSpeed(KangCnt[1], 0)) \div 16

\* C13: for a current-generation device (not legacy, compute capability below
\* 9) and every mpCnt in 1..100, either planner entry point yields
\* BlockSize = 256, GroupCnt = 32, BlockCnt = mpCnt, unclamped, and a kangaroo
\* count of 8192 * mpCnt.
C13_CurrentGenUnclamped ==
    ~IsOldGpu[1] /\ devMajor[1] < 9 /\ mpCnt[1] \in 1..100 =>
        /\ pc[1] \in {"planned", "calc"} =>
              /\ Kparams[1].BlockSize = 256
              /\ Kparams[1].GroupCnt = 32
              /\ Kparams[1].BlockCnt = mpCnt[1]
        /\ pc[1] = "planned" => KangCnt[1] = 8192 * mpCnt[1]
        /\ pc[1] = "calc" => calcRet[1] = 8192 * mpCnt[1]

Product(g) == g.BlockSize * g.GroupCnt * g.BlockCnt

\* what the claim allows a planner with the given ceiling to make of the
\* naive geometry g: the result fits; an excess is met by a smaller GroupCnt,
\* and BlockCnt is touched only if no GroupCnt makes the product fit
GroupCntFirst(g, out, ceiling) ==
    /\ Product(out) <= ceiling
    /\ out.BlockSize = g.BlockSize
    /\ IF Product(g) > ceiling
       THEN /\ out.GroupCnt < g.GroupCnt
            /\ out.BlockCnt # g.BlockCnt => g.BlockSize * g.BlockCnt > ceiling
       ELSE out.GroupCnt = g.GroupCnt /\ out.BlockCnt = g.BlockCnt

\* C14: the planner never rejects a descriptor; when the naive product exceeds
\* the ceiling it reduces GroupCnt first and reduces BlockCnt only when
\* reducing GroupCnt alone cannot make the product fit, in Prepare and in
\* CalcKangCnt alike.
C14_ReducesGroupCntFirst ==
    /\ pc[1] = "planned" =>
          GroupCntFirst(PrepareGeometry(mpCnt[1], IsOldGpu[1], devMajor[1]), Kparams[1],
                        MAX_SAFE_KANG_CNT)
    /\ pc[1] = "calc" =>
          GroupCntFirst(CalcGeometry(mpCnt[1], IsOldGpu[1], devMajor[1]), Kparams[1],
                        MAX_SAFE_KANG_CNT_Calc)

\* a step of the diagnostics at the end of a batch goes on to the next
\* statement, and the last of them records the speed sample and returns to
\* the loop condition; none of them touches the error counter
DiagnosticsGoOn ==
    \A w \in WorkerIds :
        /\ pc[w] \in Diagnostics /\ pc'[w] # pc[w] =>
              /\ gTotalErrors' = gTotalErrors
              /\ reported'[w] = reported[w]
        /\ pc[w] = "memcpy.dbg" /\ pc'[w] # pc[w] => pc'[w] = "memcpy.lcnt"
        /\ pc[w] = "memcpy.lcnt" /\ pc'[w] # pc[w] => pc'[w] = "sync.diag"
        /\ pc[w] = "sync.diag" /\ pc'[w] # pc[w] =>
              /\ pc'[w] = "while"
              /\ samples'[w] = samples[w] + 1
              /\ Len(sampleLog'[w]) = Len(sampleLog[w]) + 1

\* a worker back at the loop condition has a sample for every batch and has
\* reported no error, whether or not its diagnostics were copied
DiagnosticsIgnored ==
    \A w \in WorkerIds :
        pc[w] = "while" /\ iter[w] > 0 =>
            /\ samples[w] = iter[w]
            /\ reported[w] = 0
            /\ gTotalErrors = 0

\* C15: a failure of a diagnostics copy at the end of an iteration (debug
\* counters, looped-lane count, or the wait after them) is ignored: the shared
\* error counter is unchanged, the speed sample is still recorded and the
\* worker goes on to the next test of the stop flag.
C15_DiagnosticsFailureIgnored == []DiagnosticsIgnored /\ [][DiagnosticsGoOn]_vars

\* a batch whose three diagnostics calls all failed is back at the loop
\* condition with its sample recorded
C15_Witness ==
    /\ pc[1] = "while" /\ iter[1] = 1 /\ samples[1] = 1
    /\ SeqRange(evlog[1]) \cap Diagnostics = {}
    /\ "sync.cnt" \in SeqRange(evlog[1])
    /\ gTotalErrors = 0

\* the queues worker w is about to issue commands on
QueuesInUse(w) == {computeStream, memoryStream}

\* C16: with several workers in one process no queue is shared: each worker
\* issues commands only on the compute and transfer queues its own Prepare
\* created, never on a queue that a Release has destroyed, and each queue is
\* destroyed exactly once.
C16_QueuesNotShared ==
    /\ \A w \in WorkerIds :
          pc[w] \in BatchPcs \cup {"Start", "while"} =>
              \A s \in QueuesInUse(w) : s.w = w /\ streamState[s] = "alive"
    /\ \A s \in Streams : \A i \in 1..Len(queue[s]) : queue[s][i].w = s.w
    /\ \A s \in Streams : streamState[s] # "destroyed.again"
    /\ (\A w \in WorkerIds : pc[w] = "returned") =>
          \A s \in Streams : streamState[s] # "alive"

\* C17: a worker whose Prepare returned false never runs: Start returns false
\* at its test of Failed, before it acquires the host herd buffer or writes a
\* device buffer, and Execute reaches neither its loop nor Release.
C17_FailedPrepareNeverRuns ==
    \A w \in WorkerIds :
        prepRet[w] = "false" =>
            /\ pc[w] \notin {"while", "Release"} \cup BatchPcs
            /\ "RndPnts" \notin SeqRange(allocLog[w])
            /\ iter[w] = 0

\* C18: after a successful Prepare and Start, the Release at the end of
\* Execute frees every buffer, in exactly the reverse of the order in which
\* they were acquired: the host herd buffer, the host DP buffer, then the
\* device buffers from the looped-lane array back to the first one allocated;
\* the sequence is the same after a clean stop and after a fatal error of the
\* loop.
C18_ReleaseReversesAcquisition ==
    \A w \in WorkerIds :
        prepRet[w] = "true" /\ relCalls[w] = 1 =>
            /\ Released(w) = Reverse(allocLog[w])
            /\ Len(freeLog[w]) = Len(allocLog[w])
            /\ SubSeq(Released(w), 1, 3) = <<"RndPnts", "DPs_out", "Kparams.LoopedKangs">>
            /\ Released(w)[Len(Released(w))] = DeviceBufs(IsOldGpu[w])[1]

\* Release has run after a fatal error inside the loop
C18_Witness ==
    /\ prepRet[1] = "true" /\ relCalls[1] = 1
    /\ reported[1] = 1 /\ errRet[1] = "break"
    /\ Len(freeLog[1]) = Len(DeviceBufs(IsOldGpu[1])) + 2

\* C19: on every device profile, once Start has returned true the bytes it
\* set to zero in the loop-history table are no more than the bytes Prepare
\* allocated for the table: the clear and the allocation use the same
\* loop-history length.
C19_LoopTableClearWithinAllocation ==
    \A w \in WorkerIds :
        pc[w] \in {"while"} \cup BatchPcs =>
            /\ LoopTableCleared(KangCnt[w])
                  <= LoopTableAllocated(KangCnt[w], IsOldGpu[w], devMajor[w])
            /\ EffectiveMdLen(IsOldGpu[w], devMajor[w]) = MD_LEN

\* C20: for every lane i of the herd, the host writes of GenerateRndDistances
\* and of Start to lane i lie inside the KangCnt*96 bytes allocated, and the
\* record of lane i is bytes [96*i, 96*i+96) of the uploaded image: 64 bytes
\* of point, then the distance.
C20_LaneRecordStride ==
    /\ \A i \in 0..(Len(lanePriv) - 1) :
          /\ PrivWrite(i).hi <= RndPntsBytes(KangCnt[1])
          /\ PrivWrite(i).lo = KangRecBytes * i + 64
          /\ PrivWrite(i).hi <= KangRecBytes * i + KangRecBytes
    /\ \A i \in 0..(Len(lanePnt) - 1) :
          /\ PntWrite(i).hi <= RndPntsBytes(KangCnt[1])
          /\ PntWrite(i).lo = KangRecBytes * i
          /\ PntWrite(i).hi = KangRecBytes * i + 64

\* C21: for every 32-bit value of the hit counter, the copy of the DP records
\* has a size that is not negative and not more than MAX_DP_CNT*48; it reads
\* inside the device output ring, from the byte after the 16-byte prefix, and
\* writes inside the host DP buffer.
C21_CopyBackInsideBuffers ==
    /\ copySize >= 0
    /\ copySize <= MAX_DP_CNT * GPU_DP_SIZE
    /\ RecordsAt = 16
    /\ RecordsAt + copySize <= DeviceRingBytes
    /\ copySize <= HostDPsBytes

\* the BlockCnt, BlockSize and GroupCnt of a kernel-parameter record
GeometryOf(g) == <<g.BlockCnt, g.BlockSize, g.GroupCnt>>

\* C22: for every capability descriptor, the count CalcKangCnt returns is the
\* KangCnt Prepare configures for the same descriptor, and both leave the same
\* BlockCnt, BlockSize and GroupCnt in the kernel parameters.
C22_PlannersAgree ==
    LET prep == PreparePlan(mpCnt[1], IsOldGpu[1], devMajor[1])
        calc == CalcPlan(mpCnt[1], IsOldGpu[1], devMajor[1])
    IN  /\ pc[1] = "calc" =>
              /\ calcRet[1] = prep.KangCnt
              /\ GeometryOf(Kparams[1]) = GeometryOf(prep)
        /\ pc[1] = "planned" =>
              /\ KangCnt[1] = CalcReturn(calc)
              /\ GeometryOf(Kparams[1]) = GeometryOf(calc)

\* the queues created by the Prepare of worker w that are alive
AliveOf(w) == {s \in Streams : s.w = w /\ streamState[s] = "alive"}

\* C23: Prepare leaks no command queue: when it has returned true exactly two
\* queues it created are alive, the first compute queue being destroyed when
\* the high-priority one replaces it, and when it has returned false, at
\* whatever step, no queue it created is alive.
C23_PrepareLeaksNoQueue ==
    \A w \in WorkerIds :
        /\ pc[w] = "ready" =>
              /\ Cardinality(AliveOf(w)) = 2
              /\ AliveOf(w) = {computeStream, memoryStream}
        /\ pc[w] = "prepfailed" => AliveOf(w) = {}

====
